---- MODULE Spec2Model ----
(***************************************************************************)
(* State-machine model of the worklog aggregation of src/jira_ui_app.py:   *)
(* process_by_author (issue discovery, concurrent per-issue worklog fetch, *)
(* entry filtering, per-date/per-category accumulation, totals and         *)
(* formatting), the record sort done by the page code, and the duration    *)
(* formatter secs_to_hms.                                                  *)
(*                                                                         *)
(* Renderings.  The Korean literals of the source are written in ASCII:    *)
(*   "테스트","개발","회의","세미나","기타" -> "Test","Dev","Meeting",     *)
(*   "Seminar","Other";   "전체 총 시간" -> "Total".                       *)
(* A calendar date is an integer day number; the ISO date string the code  *)
(* uses as dictionary key orders the same way.  An optional value (a       *)
(* Python None or a value v) is the sequence <<>> or <<v>>.                *)
(***************************************************************************)
EXTENDS Integers, Sequences, FiniteSets, TLC

(* ------------------------------ bounds --------------------------------- *)
\* number of issues the project holds (issue keys 1..NumIssues)
NumIssues == 2
\* total number of worklog entries over all issues
MaxEntries == 2
\* calendar days 1..MaxDate; the query asks for the days 2..3
MaxDate == 4
\* longest parent chain the search response nests
MaxDepth == 2
\* secs_to_hms is applied to every integer in -MaxFmtSec..MaxFmtSec and None
MaxFmtSec == 90000

(* --------------------------- program constants ------------------------- *)
DEFAULT_CATEGORIES == <<"Test", "Dev", "Meeting", "Seminar", "Other">>

TOTAL == "Total"

Categories == {DEFAULT_CATEGORIES[i] : i \in DOMAIN DEFAULT_CATEGORIES}

(* ------------------------------ inputs --------------------------------- *)
IssueKeys == 1..NumIssues

Dates == 1..MaxDate

\* the author the query asks for, and another author of the same project
author_name == "A"

Authors == {"A", "B"}

\* timeSpentSeconds values of the entries
Durations == {1800, 3600}

\* the "started" field: absent, a string fromisoformat rejects, or a timestamp
Started == {[kind |-> "missing", date |-> 0], [kind |-> "bad", date |-> 0]}
             \cup {[kind |-> "ok", date |-> d] : d \in Dates}

\* the "comment" field: absent, or text with or without a leading [tag]
Comments == {[present |-> FALSE, hasTag |-> FALSE, tag |-> "", body |-> ""],
             [present |-> TRUE, hasTag |-> TRUE, tag |-> "Dev", body |-> "work"],
             [present |-> TRUE, hasTag |-> TRUE, tag |-> "Misc", body |-> "work"]}

Entries == [author : Authors, started : Started, comment : Comments, sec : Durations]

\* The loop body returns at its first failing test (lines 162-169): an entry
\* of another author is skipped before "started" is read, one without a
\* usable timestamp or outside the range before comment and duration are
\* read.  The fields an entry never has read are held at one value.
DefaultComment == CHOOSE c \in Comments : c.hasTag /\ c.tag = "Dev"

DefaultStarted == CHOOSE t \in Started : t.kind = "ok" /\ t.date = 2

EntryPool == {e \in Entries :
                /\ e.author # author_name => e.started = DefaultStarted
                /\ (\/ e.author # author_name
                    \/ e.started.kind # "ok"
                    \/ e.started.date < 2
                    \/ e.started.date > 3)
                      => (e.comment = DefaultComment /\ e.sec = 1800)}

\* every assignment of at most MaxEntries entries to the issues, kept in the
\* order the server lists them
RECURSIVE WorklogTables(_)
WorklogTables(n) ==
  IF n = 0 THEN {[k \in IssueKeys |-> <<>>]}
  ELSE LET smaller == WorklogTables(n - 1)
       IN  smaller \cup
           {[w EXCEPT ![k] = Append(w[k], e)] :
               w \in smaller, k \in IssueKeys, e \in EntryPool}


(* --------------------------- pure functions ---------------------------- *)
\* `sec or 0` (line 83): None and 0 both give 0
OrZero(sec) == IF sec = <<>> THEN 0 ELSE sec[1]

\* timedelta(seconds=s) normalises to days = floor(s / 86400) and
\* 0 <= seconds < 86400, also for a negative s
td_days(s) == s \div 86400

td_seconds(s) == s % 86400

hms_hours(sec) == td_days(OrZero(sec)) * 24 + td_seconds(OrZero(sec)) \div 3600

hms_minutes(sec) == (td_seconds(OrZero(sec)) % 3600) \div 60

secs_to_hms(sec) ==
  LET total_hours == hms_hours(sec)
      minutes     == hms_minutes(sec)
  IN  IF total_hours # 0
        THEN ToString(total_hours) \o "h " \o ToString(minutes) \o "m"
        ELSE ToString(minutes) \o "m"

\* parse_comment: (category tag, description)
parse_comment(c) ==
  IF ~c.present THEN <<"Other", "">>
  ELSE IF c.hasTag THEN <<c.tag, c.body>>
  ELSE <<"Other", c.body>>

\* a catch-all that is the first category of the list
KeyCat_First(cat) == IF cat \in Categories THEN cat ELSE DEFAULT_CATEGORIES[1]

\* line 186: a tag outside the fixed list folds into the catch-all
KeyCat(cat) == IF cat \in Categories THEN cat ELSE "Other"

\* a range test that forgets the lower end
InRange_NoLower(d, lo, hi) == d <= hi

\* line 168: sd <= dt.date() <= ed
InRange(d, lo, hi) == lo <= d /\ d <= hi

\* an assignment in place of setdefault: the date's buckets start over
EnsureDate_Reset(dl, d) ==
  [x \in DOMAIN dl \cup {d} |->
     IF x = d THEN [c \in Categories \cup {TOTAL} |-> 0] ELSE dl[x]]

\* line 184-185: daily.setdefault(date_str, zeros) and the grand-total key
EnsureDate(dl, d) ==
  IF d \in DOMAIN dl THEN dl
  ELSE dl @@ (d :> [c \in Categories \cup {TOTAL} |-> 0])

\* the category increment without the grand-total increment
AddSeconds_NoTotal(dl, d, key_cat, sec) ==
  [dl EXCEPT ![d] = [@ EXCEPT ![key_cat] = @ + sec]]

\* lines 187-188: the two increments
AddSeconds(dl, d, key_cat, sec) ==
  [dl EXCEPT ![d] = [@ EXCEPT ![key_cat] = @ + sec, ![TOTAL] = @ + sec]]

\* lines 174-182: the output row
MakeRecord(key, date, cat, desc, sec) ==
  [date |-> date, cat |-> cat, key |-> key, desc |-> desc,
   dur |-> secs_to_hms(<<sec>>)]

\* lines 160-188, one iteration of the loop over wl_list.  st is
\* [records, daily, err]; err = "ValueError" is fromisoformat raising.
ProcessEntry(st, wl, key, lo, hi) ==
  IF wl.author # author_name THEN st
  ELSE IF wl.started.kind = "missing" THEN st
  ELSE IF wl.started.kind = "bad" THEN [st EXCEPT !.err = "ValueError"]
  ELSE IF ~InRange(wl.started.date, lo, hi) THEN st
  ELSE LET pc2  == parse_comment(wl.comment)
           cat  == pc2[1]
           desc == pc2[2]
           d    == wl.started.date
       IN  [st EXCEPT
              !.records = Append(@, MakeRecord(key, d, cat, desc, wl.sec)),
              !.daily   = AddSeconds(EnsureDate(@, d), d, KeyCat(cat), wl.sec)]

\* the loop of line 160 over wl_list from index i; an exception ends it
RECURSIVE ProcessWorklogs(_, _, _, _, _, _)
ProcessWorklogs(st, wl_list, i, key, lo, hi) ==
  IF i > Len(wl_list) \/ st.err # "" THEN st
  ELSE ProcessWorklogs(ProcessEntry(st, wl_list[i], key, lo, hi),
                       wl_list, i + 1, key, lo, hi)

(* A parent chain as the search response nests it: chain[1] is the issue's *)
(* "parent" object, chain[i+1] is chain[i]["fields"]["parent"].  A node    *)
(* without "fields" cannot hold a further parent, so only the last node    *)
(* may lack them.  A JSON document is a finite tree: no chain is cyclic.   *)
ParentNodes == [hasFields : BOOLEAN, summary : {"parent"}]

ParentChains ==
  {ch \in UNION {[1..n -> ParentNodes] : n \in 0..MaxDepth} :
      \A i \in 1..(Len(ch) - 1) : ch[i].hasFields}

\* lines 153-154: while top.get("fields",{}).get("parent"): top = ...
RECURSIVE WalkParents(_, _)
WalkParents(ch, top) ==
  IF ch[top].hasFields /\ top < Len(ch) THEN WalkParents(ch, top + 1) ELSE top

\* lines 150-157: the grouping title, or the KeyError of top["fields"]
ResolveParent(summary, ch) ==
  IF Len(ch) = 0 THEN [err |-> "", top_sum |-> summary]
  ELSE LET top == WalkParents(ch, 1)
       IN  IF ch[top].hasFields
             THEN [err |-> "", top_sum |-> ch[top].summary]
             ELSE [err |-> "KeyError", top_sum |-> ""]

\* lines 191-192
ComputeTotal(dl) ==
  LET RECURSIVE SumOver(_, _)
      SumOver(ds, c) ==
        IF ds = {} THEN 0
        ELSE LET d == CHOOSE x \in ds : TRUE
             IN  dl[d][c] + SumOver(ds \ {d}, c)
  IN  [c \in Categories \cup {TOTAL} |-> SumOver(DOMAIN dl, c)]

\* lines 196-200
FormatDaily(dl) == [d \in DOMAIN dl |-> [k \in DOMAIN dl[d] |-> secs_to_hms(<<dl[d][k]>>)]]

FormatTotal(t) == [k \in DOMAIN t |-> secs_to_hms(<<t[k]>>)]

Orderings(s) ==
  {[i \in 1..Len(s) |-> s[p[i]]] :
      p \in {q \in [1..Len(s) -> 1..Len(s)] : \A i, j \in 1..Len(s) : i # j => q[i] # q[j]}}

\* a sort that puts later dates first
SortByDate_Descending(s) ==
  {t \in Orderings(s) : \A i, j \in 1..Len(t) : i < j => t[i].date >= t[j].date}

\* line 260: df.sort_values("날짜", ascending=True); the order among rows of
\* one date is whatever the sort leaves
SortByDate(s) ==
  {t \in Orderings(s) : \A i, j \in 1..Len(t) : i < j => t[i].date <= t[j].date}

(* ------------------------------- state --------------------------------- *)
VARIABLES
  pc,         \* "start", "fetching", "done" (returned), "shown" (page drawn),
              \* "aborted" (an exception left process_by_author),
              \* "fmt" / "fmt_done" (the formatter applied on its own)
  err,        \* the exception that aborted the query, "" if none
  discovery,  \* what the search call gave: "none" yet, "ok", "error_response"
              \* (a JSON body without "issues") or "transport" (requests raised)
  worklogs,   \* the server's worklog list of every issue the search returned
  sd, ed,     \* the parsed query range
  issue_keys, \* keys of the issues the search returned
  pending,    \* keys whose future as_completed has not yet yielded
  records,    \* the flat record list
  daily,      \* date -> category -> seconds
  total,      \* category -> seconds over all dates
  daily_fmt,  \* returned: daily, formatted
  total_fmt,  \* returned: total, formatted
  shown,      \* the record table the page displays
  fmt_in,     \* argument of secs_to_hms, an optional integer
  fmt_out     \* its result

vars == <<pc, err, discovery, worklogs, sd, ed, issue_keys, pending, records,
          daily, total, daily_fmt, total_fmt, shown, fmt_in, fmt_out>>

EmptyMap == <<>>

\* lines 132-134 and the query the page issues (lines 224-230)
Init ==
  /\ pc = "start"
  /\ err = ""
  /\ discovery = "none"
  /\ worklogs = [k \in IssueKeys |-> <<>>]
  /\ sd = 2
  /\ ed = 3
  /\ issue_keys = {}
  /\ pending = {}
  /\ records = <<>>
  /\ daily = EmptyMap
  /\ total = EmptyMap
  /\ daily_fmt = EmptyMap
  /\ total_fmt = EmptyMap
  /\ shown = <<>>
  /\ fmt_in = <<>>
  /\ fmt_out = ""

\* an exception propagates out of process_by_author: its locals are gone and
\* the page code after line 225 does not run
Raise(e) ==
  /\ pc' = "aborted"
  /\ err' = e
  /\ issue_keys' = {}
  /\ pending' = {}
  /\ records' = <<>>
  /\ daily' = EmptyMap

\* lines 137-142: get_issues, then one submitted future per issue key
Discover ==
  /\ pc = "start"
  /\ \/ /\ discovery' = "transport"
        /\ Raise("RequestException")
        /\ UNCHANGED worklogs
     \/ /\ discovery' = "error_response"
        /\ pc' = "fetching"
        /\ issue_keys' = {}
        /\ pending' = {}
        /\ UNCHANGED <<err, records, daily, worklogs>>
     \/ /\ discovery' = "ok"
        /\ worklogs' \in WorklogTables(MaxEntries)
        /\ pc' = "fetching"
        /\ issue_keys' = IssueKeys
        /\ pending' = IssueKeys
        /\ UNCHANGED <<err, records, daily>>
  /\ UNCHANGED <<sd, ed, total, daily_fmt, total_fmt, shown, fmt_in, fmt_out>>

\* lines 143-188: as_completed yields the future of key; future.result()
\* re-raises what get_worklogs raised (requests failing, a body that is not
\* JSON); otherwise the parent chain is walked and the entries are processed
Complete(key) ==
  /\ pc = "fetching"
  /\ key \in pending
  /\ LET st == ProcessWorklogs([records |-> records, daily |-> daily, err |-> ""],
                               worklogs[key], 1, key, sd, ed)
     IN  \/ Raise("FetchError")
         \/ /\ \E ch \in ParentChains : ResolveParent("summary", ch).err # ""
            /\ Raise("KeyError")
         \/ /\ \E ch \in ParentChains : ResolveParent("summary", ch).err = ""
            /\ IF st.err # "" THEN Raise(st.err)
               ELSE /\ records' = st.records
                    /\ daily' = st.daily
                    /\ pending' = pending \ {key}
                    /\ UNCHANGED <<pc, err, issue_keys>>
  /\ UNCHANGED <<discovery, worklogs, sd, ed, total, daily_fmt, total_fmt, shown,
                 fmt_in, fmt_out>>

\* lines 190-202: totals, formatting, return
Finalize ==
  /\ pc = "fetching"
  /\ pending = {}
  /\ total' = ComputeTotal(daily)
  /\ daily_fmt' = FormatDaily(daily)
  /\ total_fmt' = FormatTotal(ComputeTotal(daily))
  /\ pc' = "done"
  /\ UNCHANGED <<err, discovery, worklogs, sd, ed, issue_keys, pending, records,
                 daily, shown, fmt_in, fmt_out>>

\* lines 236-261: the page sorts the returned records by date
Display ==
  /\ pc = "done"
  /\ shown' \in SortByDate(records)
  /\ pc' = "shown"
  /\ UNCHANGED <<err, discovery, worklogs, sd, ed, issue_keys, pending, records,
                 daily, total, daily_fmt, total_fmt, fmt_in, fmt_out>>

Next ==
  \/ Discover
  \/ \E key \in IssueKeys : Complete(key)
  \/ Finalize
  \/ Display

Spec == Init /\ [][Next]_vars

(* ------------------- the formatter applied on its own ------------------- *)
FmtInputs == {<<>>} \cup {<<s>> : s \in (-MaxFmtSec)..MaxFmtSec}

InitFmt ==
  /\ pc = "fmt"
  /\ err = ""
  /\ discovery = "none"
  /\ worklogs = [k \in IssueKeys |-> <<>>]
  /\ sd = 2
  /\ ed = 3
  /\ issue_keys = {}
  /\ pending = {}
  /\ records = <<>>
  /\ daily = EmptyMap
  /\ total = EmptyMap
  /\ daily_fmt = EmptyMap
  /\ total_fmt = EmptyMap
  /\ shown = <<>>
  /\ fmt_in \in FmtInputs
  /\ fmt_out = ""

Format ==
  /\ pc = "fmt"
  /\ fmt_out' = secs_to_hms(fmt_in)
  /\ pc' = "fmt_done"
  /\ UNCHANGED <<err, discovery, worklogs, sd, ed, issue_keys, pending, records,
                 daily, total, daily_fmt, total_fmt, shown, fmt_in>>

NextFmt == Format

SpecFmt == InitFmt /\ [][NextFmt]_vars

(* ============================== claims ================================ *)
\* issues whose future has been consumed and whose entries are processed
Processed == issue_keys \ pending

Running == pc \in {"fetching", "done", "shown"}

Returned == pc \in {"done", "shown"}

\* <<key, index>> of every entry of a processed issue
Slots == UNION {{<<k, i>> : i \in 1..Len(worklogs[k])} : k \in Processed}

EntryAt(s) == worklogs[s[1]][s[2]]

\* the entry-level filter as the specification states it
Qualifies(e) ==
  /\ e.author = author_name
  /\ e.started.kind = "ok"
  /\ sd <= e.started.date
  /\ e.started.date <= ed

QualSlots == {s \in Slots : Qualifies(EntryAt(s))}

RECURSIVE SecondsOf(_)
SecondsOf(S) ==
  IF S = {} THEN 0
  ELSE LET s == CHOOSE x \in S : TRUE
       IN  EntryAt(s).sec + SecondsOf(S \ {s})

TagOf(e) == IF e.comment.present /\ e.comment.hasTag THEN e.comment.tag ELSE "Other"

BucketOf(e) == IF TagOf(e) \in Categories THEN TagOf(e) ELSE "Other"

RECURSIVE CatSum(_, _)
CatSum(row, i) == IF i = 0 THEN 0 ELSE row[DEFAULT_CATEGORIES[i]] + CatSum(row, i - 1)

RECURSIVE DateSum(_, _)
DateSum(c, d) ==
  IF d = 0 THEN 0
  ELSE (IF d \in DOMAIN daily THEN daily[d][c] ELSE 0) + DateSum(c, d - 1)

Ascending(s) == \A i \in 1..(Len(s) - 1) : s[i].date <= s[i + 1].date

\* the aggregation run over the issues in key order, one after the other
RECURSIVE InKeyOrder(_, _)
InKeyOrder(st, k) ==
  IF k > NumIssues THEN st
  ELSE InKeyOrder(IF k \in issue_keys
                    THEN ProcessWorklogs(st, worklogs[k], 1, k, sd, ed)
                    ELSE st,
                  k + 1)

Canonical == InKeyOrder([records |-> <<>>, daily |-> EmptyMap, err |-> ""], 1)

(* C1: a failed worklog fetch of one issue only omits that issue's entries: *)
(* the query is never aborted by it.                                        *)
C1_FetchFailureOmitsIssueOnly == ~(pc = "aborted" /\ err = "FetchError")

(* C2: a failed issue discovery (transport failure, or an error response    *)
(* without an issue list) never ends in the outcome of a successful         *)
(* discovery with no qualifying entry: a normal return with empty Records   *)
(* and empty DailyAggregate.                                                *)
C2_DiscoveryFailureDistinguished ==
  discovery \in {"transport", "error_response"}
    => ~(Returned /\ records = <<>> /\ daily_fmt = EmptyMap)

(* C3: an entry with no start timestamp or an unparseable one is dropped    *)
(* silently: the query is never aborted by it.                              *)
C3_MalformedEntryDropped == ~(pc = "aborted" /\ err = "ValueError")

(* C4: for fixed issues and worklog lists, the returned DailyAggregate and  *)
(* TotalAggregate are the same for every completion order of the fetches    *)
(* (they equal those of the run in key order); the Record list is the same  *)
(* up to order.                                                             *)
C4_OrderIndependent ==
  Returned =>
    /\ daily_fmt = FormatDaily(Canonical.daily)
    /\ total_fmt = FormatTotal(ComputeTotal(Canonical.daily))
    /\ records \in Orderings(Canonical.records)

\* two records of one date, returned in the reverse of key order
C4_Witness ==
  /\ pc = "done"
  /\ Len(records) = 2
  /\ records[1].key > records[2].key
  /\ records[1].date = records[2].date
  /\ records[1].cat # records[2].cat

(* C5: every qualifying entry of a processed issue adds its duration once   *)
(* to one date bucket: in it to the bucket of its tag when the tag is in    *)
(* the fixed list, to "Other" otherwise, and to the grand total; no bucket  *)
(* holds anything else.                                                     *)
C5_ExactlyOnce ==
  Running =>
    /\ DOMAIN daily = {EntryAt(s).started.date : s \in QualSlots}
    /\ \A d \in DOMAIN daily :
         /\ \A c \in Categories :
              daily[d][c] = SecondsOf({s \in QualSlots :
                                         /\ EntryAt(s).started.date = d
                                         /\ BucketOf(EntryAt(s)) = c})
         /\ daily[d][TOTAL] = SecondsOf({s \in QualSlots : EntryAt(s).started.date = d})

\* a recognised tag and an unrecognised one on the same date
C5_Witness ==
  /\ pc = "done"
  /\ \E d \in DOMAIN daily : daily[d]["Dev"] > 0 /\ daily[d]["Other"] > 0
  /\ \E s \in QualSlots : TagOf(EntryAt(s)) = "Misc"

(* C6: for every date the grand-total bucket equals the sum of the          *)
(* per-category buckets, in seconds; the TotalAggregate holds, for every    *)
(* category and for the grand total, the sum of that bucket over all dates. *)
C6_Conservation ==
  /\ Running => \A d \in DOMAIN daily :
                   daily[d][TOTAL] = CatSum(daily[d], Len(DEFAULT_CATEGORIES))
  /\ Returned => \A c \in Categories \cup {TOTAL} : total[c] = DateSum(c, MaxDate)

\* two dates, two durations
C6_Witness ==
  /\ pc = "done"
  /\ Cardinality(DOMAIN daily) = 2
  /\ total[TOTAL] = 5400
  /\ total["Dev"] = 1800

(* C7: a record and seconds in the aggregates exist only for an entry whose *)
(* author is the requested one and whose start date is in [start, end];     *)
(* any other entry of an admitted issue contributes nothing.                *)
C7_EntryLevelFilter ==
  Running =>
    /\ \A i \in DOMAIN records :
         \E s \in QualSlots : /\ s[1] = records[i].key
                              /\ EntryAt(s).started.date = records[i].date
    /\ Len(records) = Cardinality(QualSlots)
    /\ \A d \in DOMAIN daily : sd <= d /\ d <= ed
    /\ DateSum(TOTAL, MaxDate) = SecondsOf(QualSlots)

\* another author's in-range entry beside a qualifying one, on one issue
C7_Witness ==
  /\ pc = "done"
  /\ Len(records) = 1
  /\ \E s \in Slots : /\ EntryAt(s).author # author_name
                      /\ EntryAt(s).started.kind = "ok"
                      /\ EntryAt(s).started.date >= sd
                      /\ EntryAt(s).started.date <= ed
                      /\ s[1] = records[1].key

(* C8: the parent-chain walk yields a grouping title for every issue, also  *)
(* when a parent reference lacks its nested fields: the query is never      *)
(* aborted by the walk.                                                     *)
C8_ParentWalkYieldsTitle == ~(pc = "aborted" /\ err = "KeyError")

(* C9: secs_to_hms gives "0m", its result for 0, for None and for every     *)
(* negative duration; its minutes are in 0..59 and its hours never negative.*)
C9_NegativeOrMissingIsZero ==
  pc = "fmt_done" =>
    /\ (IF fmt_in = <<>> THEN TRUE ELSE fmt_in[1] < 0) => fmt_out = secs_to_hms(<<0>>)
    /\ hms_minutes(fmt_in) \in 0..59
    /\ hms_hours(fmt_in) >= 0

====
